---------------------------- MODULE Spec2Model ----------------------------
(***************************************************************************)
(* Model of src/plot.py: a one-shot script that reads a ';'-delimited text *)
(* file, computes for every column the ratio series 1 - column/reference   *)
(* and plots the series into an .eps file.                                 *)
(*                                                                         *)
(* Representation.                                                         *)
(*  - A Python str is a sequence of one-character strings.                 *)
(*  - A Python float is a reduced fraction <<n, d>> with d > 0.  The       *)
(*    numeric literals of the modelled input are unsigned decimal integers *)
(*    and every divisor that occurs is 1, 2 or 4, so each quotient below   *)
(*    is exactly representable in binary floating point and the fraction   *)
(*    equals the double that Python computes.                              *)
(*  - A list element is tagged with its Python type: Flt(q) or Str(s).     *)
(*  - Python indexes from 0, TLA+ from 1: At(s, i) is Python's s[i].       *)
(*  - An uncaught exception is recorded in `error` with the source line    *)
(*    that raises it, and the run moves to pc = "aborted".                 *)
(***************************************************************************)
EXTENDS Integers, Sequences, FiniteSets, TLC

VARIABLES
    argv,       \* sys.argv
    pc,         \* position of the script
    filename,   \* line 4
    outname,    \* line 5
    limit,      \* line 6
    fileOpen,   \* the handle of line 9 is open
    opened,     \* open(filename) has been called
    file,       \* the lines the loop of line 10 has consumed, in file order
    data,       \* line 8
    names,      \* line 19
    nums,       \* line 20
    rhos,       \* line 21
    srpts,      \* line 22
    col,        \* loop variable of line 24
    seks,       \* line 25
    ratios,     \* line 26
    name,       \* line 28
    figure,     \* the pyplot figure state set by lines 16 and 30-37
    plotted,    \* the calls of plt.plot made so far, in order
    written,    \* savefig has written the output file
    error       \* the uncaught exception, if any

vars == <<argv, pc, filename, outname, limit, fileOpen, opened, file, data,
          names, nums, rhos, srpts, col, seks, ratios, name, figure, plotted,
          written, error>>

-----------------------------------------------------------------------------
(* Bound of the model: the number of lines an input file holds at most.    *)
MaxLines == 3

-----------------------------------------------------------------------------
(* Python values *)

At(s, i) == s[i + 1]

Flt(q) == [t |-> "float", v |-> q]
Str(s) == [t |-> "str", v |-> s]

RECURSIVE Gcd(_, _)
Gcd(a, b) == IF b = 0 THEN a ELSE Gcd(b, a % b)

Abs(n) == IF n < 0 THEN -n ELSE n

\* the fraction n/d in lowest terms with a positive denominator (d # 0 in
\* every use the script makes of it; with d = 0 the pair is left as it is)
Frac(n, d) ==
    LET g == Gcd(Abs(n), Abs(d))
        s == IF d < 0 THEN -1 ELSE 1
    IN  IF d = 0 THEN <<n, d>> ELSE <<(s * n) \div g, (s * d) \div g>>

Neg(q) == <<-q[1], q[2]>>

-----------------------------------------------------------------------------
(* str methods used by the script *)

Whitespace == {" ", "\t", "\n", "\r"}

RECURSIVE LStrip(_)
LStrip(s) ==
    IF s # <<>> /\ Head(s) \in Whitespace THEN LStrip(Tail(s)) ELSE s

RECURSIVE RStrip(_)
RStrip(s) ==
    IF s # <<>> /\ s[Len(s)] \in Whitespace
    THEN RStrip(SubSeq(s, 1, Len(s) - 1))
    ELSE s

\* str.strip()
Strip(s) == RStrip(LStrip(s))

\* str.startswith at offset i (1-based)
MatchAt(s, i, sub) ==
    /\ i + Len(sub) - 1 <= Len(s)
    /\ SubSeq(s, i, i + Len(sub) - 1) = sub

\* EndsWith that compares the suffix without its first character
EndsWith_NoDot(s, suffix) ==
    /\ Len(suffix) - 1 <= Len(s)
    /\ SubSeq(s, Len(s) - Len(suffix) + 2, Len(s)) = Tail(suffix)

\* str.endswith(suffix)
EndsWith(s, suffix) ==
    /\ Len(suffix) <= Len(s)
    /\ SubSeq(s, Len(s) - Len(suffix) + 1, Len(s)) = suffix

\* str.split(sep) for a one-character separator
RECURSIVE Split(_, _)
Split(s, sep) ==
    IF \E i \in 1..Len(s) : s[i] = sep
    THEN LET i == CHOOSE k \in 1..Len(s) :
                      s[k] = sep /\ \A j \in 1..(k - 1) : s[j] # sep
         IN  <<SubSeq(s, 1, i - 1)>> \o Split(SubSeq(s, i + 1, Len(s)), sep)
    ELSE <<s>>

\* str.replace(old, new): every non-overlapping occurrence, left to right
RECURSIVE Replace(_, _, _)
Replace(s, old, new) ==
    IF s = <<>> THEN <<>>
    ELSE IF MatchAt(s, 1, old)
         THEN new \o Replace(SubSeq(s, Len(old) + 1, Len(s)), old, new)
         ELSE <<Head(s)>> \o Replace(Tail(s), old, new)

-----------------------------------------------------------------------------
(* float(str) *)

Digits == {"0", "1", "2", "3", "4", "5", "6", "7", "8", "9"}

DigitVal(c) ==
    CASE c = "0" -> 0 [] c = "1" -> 1 [] c = "2" -> 2 [] c = "3" -> 3
      [] c = "4" -> 4 [] c = "5" -> 5 [] c = "6" -> 6 [] c = "7" -> 7
      [] c = "8" -> 8 [] c = "9" -> 9

RECURSIVE DecVal(_)
DecVal(s) ==
    IF s = <<>> THEN 0
    ELSE 10 * DecVal(SubSeq(s, 1, Len(s) - 1)) + DigitVal(s[Len(s)])

\* float(s) succeeds: surrounding whitespace is dropped and what is left is
\* a numeric literal (of the literals, the unsigned decimal integers are
\* modelled)
CanFloat(s) ==
    LET t == Strip(s)
    IN  t # <<>> /\ \A i \in 1..Len(t) : t[i] \in Digits

\* float(s), when it succeeds
Float(s) == Frac(DecVal(Strip(s)), 1)

-----------------------------------------------------------------------------
(* Literals of the script *)

\* line 7: ".eps"
DotEps == <<".", "e", "p", "s">>
\* lines 13, 15: ";"
Semicolon == ";"
\* line 28: "SRPTExcept"
SRPTExcept == <<"S", "R", "P", "T", "E", "x", "c", "e", "p", "t">>
\* line 28: "SEK"
SEK == <<"S", "E", "K">>
\* line 6: 0.005
DefaultLimit == Frac(5, 1000)
\* line 23
dots == <<"-", "--", "-.", "--", "-", "-", "-", "-", "-">>
\* LoopStart with the loop starting after the reference column
LoopStart_AfterReference == 1 + 1
\* line 24: range(1, len(names)) starts at column 1
LoopStart == 1

-----------------------------------------------------------------------------
(* The inputs of the model: command lines and the lines a file may hold *)

ArgScript == <<"p", "l", "o", "t", ".", "p", "y">>
ArgIn == <<"i", "n">>
OutEps == <<"o", ".", "e", "p", "s">>
OutPng == <<"o", ".", "p", "n", "g">>
OutNoDot == <<"o", "e", "p", "s">>
ArgTwo == <<"2">>
ArgBad == <<"x">>

Argvs ==
    { <<ArgScript>>,
      <<ArgScript, ArgIn>>,
      <<ArgScript, ArgIn, OutEps>>,
      <<ArgScript, ArgIn, OutPng>>,
      <<ArgScript, ArgIn, OutNoDot>>,
      <<ArgScript, ArgIn, OutEps, ArgTwo>>,
      <<ArgScript, ArgIn, OutEps, ArgBad>>,
      <<ArgScript, ArgIn, OutPng, ArgBad>> }

LineNameHeader ==
    <<"n", "a", "m", "e", ";", "S", "R", "P", "T", ";", "S", "R", "P", "T",
      "E", "x", "c", "e", "p", "t", "\n">>
LineRhoHeader ==
    <<"r", "h", "o", ";", "S", "R", "P", "T", ";", "S", "R", "P", "T", "E",
      "x", "c", "e", "p", "t", "\n">>
LineRhoHeader4 ==
    <<"r", "h", "o", ";", "S", "R", "P", "T", ";", "S", "R", "P", "T", "E",
      "x", "c", "e", "p", "t", ";", "S", "R", "P", "T", "E", "x", "c", "e",
      "p", "t", "2", "\n">>
LineNote == <<"r", ";", "n", "o", "t", "e", "\n">>
LineBlank == <<" ", "\n">>
LineRow == <<"1", ";", "2", ";", "2", "\n">>
LineRowPadded == <<" ", "1", ";", " ", "4", ";", "2", " ", "\n">>
LineRowZeroRef == <<"2", ";", "0", ";", "1", "\n">>
LineRowZeroSek == <<"2", ";", "4", ";", "0", "\n">>
LineRowBad == <<"1", ";", "x", ";", "2", "\n">>
LineRowShort == <<"1", ";", "2", "\n">>
LineRowLong == <<"1", ";", "2", ";", "4", ";", "1", "\n">>
LineRowSingle == <<"1", "\n">>
LineWideHeader ==
    <<"r", ";", "A", ";", "B", ";", "C", ";", "D", ";", "E", ";", "F", ";",
      "G", ";", "H", ";", "I", ";", "J", "\n">>
LineWideRow ==
    <<"1", ";", "1", ";", "1", ";", "1", ";", "1", ";", "1", ";", "1", ";",
      "1", ";", "1", ";", "1", ";", "1", "\n">>

Lines ==
    { LineNameHeader,
      LineRhoHeader,
      LineRhoHeader4,
      LineNote,
      LineBlank,
      LineRow,
      LineRowPadded,
      LineRowZeroRef,
      LineRowZeroSek,
      LineRowBad,
      LineRowShort,
      LineRowLong,
      LineRowSingle,
      LineWideHeader,
      LineWideRow }

-----------------------------------------------------------------------------
(* The steps of the script as functions of the values they read *)

NoError == [type |-> "none", line |-> 0]
Raise(type, line) == [type |-> type, line |-> line]

\* RowKind with a line beginning with 'n' kept as a row of strings
RowKind_HeaderN(line) ==
    IF line # <<>> /\ line[1] \notin {"n", "r"} THEN "numeric"
    ELSE IF line # <<>> THEN "string"
    ELSE "skip"

\* RowKind with a line beginning with 'r' skipped
RowKind_SkipR(line) ==
    IF line # <<>> /\ line[1] \notin {"n", "r"} THEN "numeric"
    ELSE "skip"

\* lines 12 and 14: how a stripped line is classified
RowKind(line) ==
    IF line # <<>> /\ line[1] \notin {"n", "r"} THEN "numeric"
    ELSE IF line # <<>> /\ line[1] = "r" THEN "string"
    ELSE "skip"

\* NumericRow with 0.0 in the place of a field that is no number
NumericRow_Lenient(fields) ==
    [ok |-> TRUE,
     row |-> [i \in 1..Len(fields) |->
                 IF CanFloat(fields[i]) THEN Flt(Float(fields[i]))
                 ELSE Flt(Frac(0, 1))]]

\* line 13: [float(l) for l in fields]; ok is FALSE when float() raises
NumericRow(fields) ==
    IF \A i \in 1..Len(fields) : CanFloat(fields[i])
    THEN [ok |-> TRUE, row |-> [i \in 1..Len(fields) |-> Flt(Float(fields[i]))]]
    ELSE [ok |-> FALSE, row |-> <<>>]

\* line 15: the fields, kept as strings
StringRow(fields) == [i \in 1..Len(fields) |-> Str(fields[i])]

\* lines 11-15 for one line of the file: the data list afterwards, or the
\* ValueError of line 13
ParseLine(d, raw) ==
    LET line == Strip(raw)
        kind == RowKind(line)
        fields == Split(line, Semicolon)
    IN  IF kind = "numeric"
        THEN LET r == NumericRow(fields)
             IN  IF r.ok THEN [err |-> NoError, data |-> Append(d, r.row)]
                 ELSE [err |-> Raise("ValueError", 13), data |-> d]
        ELSE IF kind = "string"
             THEN [err |-> NoError, data |-> Append(d, StringRow(fields))]
             ELSE [err |-> NoError, data |-> d]

\* the rows of a list that have an index i
RECURSIVE RowsWith(_, _)
RowsWith(rows, i) ==
    IF rows = <<>> THEN <<>>
    ELSE IF i < Len(Head(rows)) THEN <<Head(rows)>> \o RowsWith(Tail(rows), i)
         ELSE RowsWith(Tail(rows), i)

\* Column that leaves out the rows that have no index i
Column_SkipShort(rows, i) ==
    [ok |-> TRUE,
     v |-> [k \in 1..Len(RowsWith(rows, i)) |-> At(RowsWith(rows, i)[k], i)]]

\* lines 21, 22, 25: [row[i] for row in rows]; ok is FALSE when some row
\* has no index i
Column(rows, i) ==
    IF \A k \in 1..Len(rows) : i < Len(rows[k])
    THEN [ok |-> TRUE, v |-> [k \in 1..Len(rows) |-> At(rows[k], i)]]
    ELSE [ok |-> FALSE, v |-> <<>>]

\* DivError with IEEE division: a zero divisor raises nothing
DivError_NoZeroCheck(sek, srpt) ==
    IF sek.t # "float" \/ srpt.t # "float" THEN "TypeError" ELSE "none"

\* line 26: the exception sek/srpt raises, if any
DivError(sek, srpt) ==
    IF sek.t # "float" \/ srpt.t # "float" THEN "TypeError"
    ELSE IF srpt.v[1] = 0 THEN "ZeroDivisionError"
    ELSE "none"

\* Ratio with the operands of the subtraction exchanged: sek/srpt - 1
Ratio_Swapped(sek, srpt) ==
    Flt(Frac(sek.v[1] * srpt.v[2] - sek.v[2] * srpt.v[1],
             sek.v[2] * srpt.v[1]))

\* line 26: 1 - sek/srpt
Ratio(sek, srpt) ==
    Flt(Frac(sek.v[2] * srpt.v[1] - sek.v[1] * srpt.v[2],
             sek.v[2] * srpt.v[1]))

Min(a, b) == IF a < b THEN a ELSE b

\* line 26: the list comprehension over zip(seks, srpts); the first pair
\* that raises decides the exception
RatioList(ss, rs) ==
    LET n == Min(Len(ss), Len(rs))
        bad == {i \in 1..n : DivError(ss[i], rs[i]) # "none"}
    IN  IF bad = {}
        THEN [err |-> "none", v |-> [i \in 1..n |-> Ratio(ss[i], rs[i])]]
        ELSE LET i == CHOOSE k \in bad : \A j \in bad : k <= j
             IN  [err |-> DivError(ss[i], rs[i]), v |-> <<>>]

\* RewriteName of the variant that applies no rewrite
RewriteName_None(s) == s

\* line 28: names[col].replace("SRPTExcept", "SEK")
RewriteName(s) == Replace(s, SRPTExcept, SEK)

\* DotsAt with a cyclic lookup
DotsAt_Cyclic(i) == [ok |-> TRUE, v |-> At(dots, i % Len(dots))]

\* line 29: dots[i] for i >= 0; ok is FALSE when the index is out of range
DotsAt(i) ==
    IF i < Len(dots) THEN [ok |-> TRUE, v |-> At(dots, i)]
    ELSE [ok |-> FALSE, v |-> ""]

\* lines 19-22 on the parsed table; `upto` is the last line that ran
\* without raising
ExtractStep(d) ==
    IF d = <<>>
    THEN [err |-> Raise("IndexError", 19), upto |-> 18, names |-> <<>>,
          nums |-> <<>>, rhos |-> <<>>, srpts |-> <<>>]
    ELSE LET r0 == Column(Tail(d), 0)
             r1 == Column(Tail(d), 1)
         IN  IF r1.ok
             THEN [err |-> NoError, upto |-> 22, names |-> At(d, 0),
                   nums |-> Tail(d), rhos |-> r0.v, srpts |-> r1.v]
             ELSE [err |-> Raise("IndexError", 22), upto |-> 21,
                   names |-> At(d, 0), nums |-> Tail(d), rhos |-> r0.v,
                   srpts |-> <<>>]

NoSeries == [x |-> <<>>, y |-> <<>>, label |-> <<>>, linestyle |-> ""]

\* lines 25-29 for column c; `upto` is the last line that ran without
\* raising, `series` the arguments of the plt.plot call of line 29
PlotStep(nms, ns, rh, sr, c) ==
    LET cv == Column(ns, c)
        r == RatioList(cv.v, sr)
        nm == At(nms, c)
        st == DotsAt(c - 1)
    IN  IF ~cv.ok
        THEN [err |-> Raise("IndexError", 25), upto |-> 24, seks |-> <<>>,
              ratios |-> <<>>, name |-> <<>>, series |-> NoSeries]
        ELSE IF r.err # "none"
        THEN [err |-> Raise(r.err, 26), upto |-> 25, seks |-> cv.v,
              ratios |-> <<>>, name |-> <<>>, series |-> NoSeries]
        ELSE IF nm.t # "str"
        THEN [err |-> Raise("AttributeError", 28), upto |-> 26,
              seks |-> cv.v, ratios |-> r.v, name |-> <<>>,
              series |-> NoSeries]
        ELSE IF ~st.ok
        THEN [err |-> Raise("IndexError", 29), upto |-> 28, seks |-> cv.v,
              ratios |-> r.v, name |-> RewriteName(nm.v),
              series |-> NoSeries]
        ELSE [err |-> NoError, upto |-> 29, seks |-> cv.v, ratios |-> r.v,
              name |-> RewriteName(nm.v),
              series |-> [x |-> rh, y |-> r.v, label |-> RewriteName(nm.v),
                          linestyle |-> st.v]]

NoFigure ==
    [figsize |-> <<>>, yformatter |-> "", xlabel |-> "", ylabel |-> "",
     xlim |-> <<>>, ylim |-> <<>>, legend |-> ""]

-----------------------------------------------------------------------------
(* The state machine *)

Init ==
    /\ argv \in Argvs
    /\ pc = "args"
    /\ filename = <<>>
    /\ outname = <<>>
    /\ limit = <<>>
    /\ fileOpen = FALSE
    /\ opened = FALSE
    /\ file = <<>>
    /\ data = <<>>
    /\ names = <<>>
    /\ nums = <<>>
    /\ rhos = <<>>
    /\ srpts = <<>>
    /\ col = 0
    /\ seks = <<>>
    /\ ratios = <<>>
    /\ name = <<>>
    /\ figure = NoFigure
    /\ plotted = <<>>
    /\ written = FALSE
    /\ error = NoError

Abort(type, line) ==
    /\ pc' = "aborted"
    /\ error' = Raise(type, line)

\* lines 4-8
ReadArgs ==
    /\ pc = "args"
    /\ IF Len(argv) < 2
       THEN /\ Abort("IndexError", 4)
            /\ UNCHANGED <<filename, outname, limit>>
       ELSE IF Len(argv) < 3
       THEN /\ filename' = At(argv, 1)
            /\ Abort("IndexError", 5)
            /\ UNCHANGED <<outname, limit>>
       ELSE IF Len(argv) > 3 /\ ~CanFloat(At(argv, 3))
       THEN /\ filename' = At(argv, 1)
            /\ outname' = At(argv, 2)
            /\ Abort("ValueError", 6)
            /\ UNCHANGED limit
       ELSE /\ filename' = At(argv, 1)
            /\ outname' = At(argv, 2)
            /\ limit' = IF Len(argv) <= 3 THEN DefaultLimit
                        ELSE Float(At(argv, 3))
            /\ IF EndsWith(At(argv, 2), DotEps)
               THEN pc' = "open" /\ error' = error
               ELSE Abort("AssertionError", 7)
    /\ UNCHANGED <<argv, fileOpen, opened, file, data, names, nums, rhos,
                   srpts, col, seks, ratios, name, figure, plotted, written>>

\* line 9: open(filename) succeeds
OpenFile ==
    /\ pc = "open"
    /\ opened' = TRUE
    /\ fileOpen' = TRUE
    /\ pc' = "read"
    /\ UNCHANGED <<argv, filename, outname, limit, file, data, names, nums,
                   rhos, srpts, col, seks, ratios, name, figure, plotted,
                   written, error>>

\* line 9: open(filename) raises (no such file, no permission)
OpenFail ==
    /\ pc = "open"
    /\ opened' = TRUE
    /\ Abort("OSError", 9)
    /\ UNCHANGED <<argv, filename, outname, limit, fileOpen, file, data,
                   names, nums, rhos, srpts, col, seks, ratios, name, figure,
                   plotted, written>>

\* lines 10-15: one pass of the loop over the next line of the file; the
\* with statement closes the file when line 13 raises
ReadLine ==
    /\ pc = "read"
    /\ Len(file) < MaxLines
    /\ \E raw \in Lines :
          LET r == ParseLine(data, raw)
          IN  /\ file' = Append(file, raw)
              /\ data' = r.data
              /\ IF r.err = NoError
                 THEN UNCHANGED <<pc, error, fileOpen>>
                 ELSE /\ pc' = "aborted"
                      /\ error' = r.err
                      /\ fileOpen' = FALSE
    /\ UNCHANGED <<argv, filename, outname, limit, opened, names, nums, rhos,
                   srpts, col, seks, ratios, name, figure, plotted, written>>

\* line 10 at the end of the file: the loop and the with block are left
EndOfFile ==
    /\ pc = "read"
    /\ fileOpen' = FALSE
    /\ pc' = "extract"
    /\ UNCHANGED <<argv, filename, outname, limit, opened, file, data, names,
                   nums, rhos, srpts, col, seks, ratios, name, figure,
                   plotted, written, error>>

\* lines 16-23, up to the first evaluation of range(1, len(names))
Extract ==
    /\ pc = "extract"
    /\ figure' = [figure EXCEPT !.figsize = <<8, 3>>]
    /\ LET r == ExtractStep(data)
       IN  /\ names' = IF r.upto >= 19 THEN r.names ELSE names
           /\ nums' = IF r.upto >= 20 THEN r.nums ELSE nums
           /\ rhos' = IF r.upto >= 21 THEN r.rhos ELSE rhos
           /\ srpts' = IF r.upto >= 22 THEN r.srpts ELSE srpts
           /\ IF r.err = NoError
              THEN /\ col' = LoopStart
                   /\ pc' = "loop"
                   /\ error' = error
              ELSE /\ Abort(r.err.type, r.err.line)
                   /\ col' = col
    /\ UNCHANGED <<argv, filename, outname, limit, fileOpen, opened, file,
                   data, seks, ratios, name, plotted, written>>

\* lines 24-29: one pass of the loop, for column col (col holds the value
\* range() yields next)
PlotColumn ==
    /\ pc = "loop"
    /\ col < Len(names)
    /\ LET r == PlotStep(names, nums, rhos, srpts, col)
       IN  /\ seks' = IF r.upto >= 25 THEN r.seks ELSE seks
           /\ ratios' = IF r.upto >= 26 THEN r.ratios ELSE ratios
           /\ name' = IF r.upto >= 28 THEN r.name ELSE name
           /\ IF r.err = NoError
              THEN /\ plotted' = Append(plotted, r.series)
                   /\ col' = col + 1
                   /\ UNCHANGED <<pc, error>>
              ELSE /\ Abort(r.err.type, r.err.line)
                   /\ UNCHANGED <<plotted, col>>
    /\ UNCHANGED <<argv, filename, outname, limit, fileOpen, opened, file,
                   data, names, nums, rhos, srpts, figure, written>>

\* lines 30-37: the axes and the legend
Decorated ==
    [figure EXCEPT !.yformatter = "PercentFormatter(1.0)",
                   !.xlabel = "Load $\\rho$",
                   !.ylabel = "Improvement ratio",
                   !.xlim = <<Frac(3, 4), Frac(1, 1)>>,
                   !.ylim = <<Neg(limit), limit>>,
                   !.legend = "lower left"]

\* lines 24 (range exhausted) and 30-38: savefig writes the output file
Finish ==
    /\ pc = "loop"
    /\ col >= Len(names)
    /\ figure' = Decorated
    /\ written' = TRUE
    /\ pc' = "done"
    /\ UNCHANGED <<argv, filename, outname, limit, fileOpen, opened, file,
                   data, names, nums, rhos, srpts, col, seks, ratios, name,
                   plotted, error>>

\* lines 24 (range exhausted) and 30-38: savefig cannot write the file
SaveFail ==
    /\ pc = "loop"
    /\ col >= Len(names)
    /\ figure' = Decorated
    /\ Abort("OSError", 38)
    /\ UNCHANGED <<argv, filename, outname, limit, fileOpen, opened, file,
                   data, names, nums, rhos, srpts, col, seks, ratios, name,
                   plotted, written>>

Next ==
    \/ ReadArgs
    \/ OpenFile
    \/ OpenFail
    \/ ReadLine
    \/ EndOfFile
    \/ Extract
    \/ PlotColumn
    \/ Finish
    \/ SaveFail

Spec == Init /\ [][Next]_vars

-----------------------------------------------------------------------------
(* Vocabulary of the properties, read off the input file itself *)

Terminal == pc \in {"done", "aborted"}

\* the loop of line 10 has reached the end of the file
Parsed == pc \in {"extract", "loop", "done"} \/ (pc = "aborted" /\ error.line >= 19)

IsBlankLine(raw) == \A i \in 1..Len(raw) : raw[i] \in {" ", "\t", "\n", "\r"}

FieldsOf(raw) == Split(Strip(raw), ";")

\* the first character of the stripped line ("" for a blank line)
FirstChar(raw) == IF IsBlankLine(raw) THEN "" ELSE Head(Strip(raw))

\* a line of column names: not blank, and no field is a number
IsNameLine(raw) ==
    /\ ~IsBlankLine(raw)
    /\ \A i \in 1..Len(FieldsOf(raw)) : ~CanFloat(FieldsOf(raw)[i])

\* a line of numbers
IsNumberLine(raw) ==
    /\ ~IsBlankLine(raw)
    /\ \A i \in 1..Len(FieldsOf(raw)) : CanFloat(FieldsOf(raw)[i])

NonBlank(raw) == ~IsBlankLine(raw)
NotDropped(raw) == FirstChar(raw) \notin {"", "n"}

AsNames(raw) == [i \in 1..Len(FieldsOf(raw)) |-> Str(FieldsOf(raw)[i])]
AsNumbers(raw) == [i \in 1..Len(FieldsOf(raw)) |-> Flt(Float(FieldsOf(raw)[i]))]

\* header line first, number lines after it
HeaderThenNumbers(ls) ==
    /\ ls # <<>>
    /\ IsNameLine(ls[1])
    /\ \A i \in 2..Len(ls) : IsNumberLine(ls[i])

TableOf(ls) ==
    [i \in 1..Len(ls) |-> IF i = 1 THEN AsNames(ls[i]) ELSE AsNumbers(ls[i])]

-----------------------------------------------------------------------------
(* C1 *)

\* C1 as stated: when the first non-blank line of the file is a header line
\* of column names (one beginning with 'n' included) and number lines follow,
\* the parsed table is that header's fields, verbatim, followed by the number
\* lines in file order, and names is that header.
C1_Original ==
    LET ls == SelectSeq(file, NonBlank)
    IN  (Parsed /\ HeaderThenNumbers(ls)) =>
            /\ data = TableOf(ls)
            /\ (pc \in {"loop", "done"} => names = AsNames(ls[1]))

\* C1 amended: lines beginning with 'n' are dropped by the parser; when the
\* first line that is neither blank nor dropped is a header line of column
\* names (it begins with 'r') and number lines follow, the parsed table is
\* that header's fields, verbatim, followed by the number lines in file
\* order, and names is that header.
C1_HeaderIsFirstKeptLine ==
    LET ls == SelectSeq(file, NotDropped)
    IN  (Parsed /\ HeaderThenNumbers(ls)) =>
            /\ data = TableOf(ls)
            /\ (pc \in {"loop", "done"} => names = AsNames(ls[1]))

C1_Witness ==
    /\ pc = "done"
    /\ Len(file) = 3
    /\ FirstChar(file[1]) = "n"
    /\ FirstChar(file[2]) = "r"
    /\ IsNumberLine(file[3])
    /\ names = AsNames(file[2])
    /\ data = <<AsNames(file[2]), AsNumbers(file[3])>>

-----------------------------------------------------------------------------
(* C2 *)

\* C2 as stated: a completed run has plotted header length - 2 series.
C2_Original == pc = "done" => Len(plotted) = Len(names) - 2

\* C2 amended: a completed run has plotted header length - 1 series, one per
\* column of index 1 or more (the reference column 1 included) and none for
\* column 0; while the loop runs, the series plotted so far are those of
\* columns 1 .. col - 1; the first series, that of the reference column, is
\* all zeros.
C2_OneSeriesPerColumnFromOne ==
    /\ pc = "done" => Len(plotted) = Len(names) - 1
    /\ pc = "loop" => col >= 1 /\ Len(plotted) = col - 1
    /\ Len(plotted) >= 1 =>
          /\ Len(plotted[1].y) = Len(nums)
          /\ \A i \in 1..Len(nums) : plotted[1].y[i] = Flt(<<0, 1>>)

C2_Witness ==
    /\ pc = "done"
    /\ Len(names) = 3
    /\ Len(nums) = 2
    /\ Len(plotted) = 2

-----------------------------------------------------------------------------
(* C3 *)

\* q = 1 - val/ref for fractions q, val, ref (ref # 0), by cross-multiplying
IsOneMinusQuotient(q, val, ref) ==
    q[1] * (val[2] * ref[1]) = q[2] * (val[2] * ref[1] - val[1] * ref[2])

\* C3: the k-th plotted series is that of column k: it has one entry per
\* data row, its x values are column 0 and its i-th value is
\* 1 - data[i][k]/data[i][1] of the i-th data row in file order; a column
\* equal to the reference in every row gives zeros.
C3_RatioSeries ==
    \A k \in 1..Len(plotted) :
        LET s == plotted[k]
        IN  /\ nums = Tail(data)
            /\ Len(s.x) = Len(nums)
            /\ Len(s.y) = Len(nums)
            /\ \A i \in 1..Len(nums) :
                  /\ s.x[i] = At(nums[i], 0)
                  /\ s.y[i].t = "float"
                  /\ IsOneMinusQuotient(s.y[i].v, At(nums[i], k).v,
                                        At(nums[i], 1).v)
            /\ (\A i \in 1..Len(nums) : At(nums[i], k) = At(nums[i], 1))
                  => \A i \in 1..Len(nums) : s.y[i].v = <<0, 1>>

C3_Witness ==
    /\ pc = "done"
    /\ Len(nums) = 2
    /\ Len(plotted) = 2
    /\ plotted[1].y = <<Flt(<<0, 1>>), Flt(<<0, 1>>)>>
    /\ plotted[2].y = <<Flt(<<1, 1>>), Flt(<<1, 2>>)>>

-----------------------------------------------------------------------------
(* C4 *)

\* the output path of the command line does not end in ".eps"
C4_BadExtension ==
    /\ Len(argv) >= 3
    /\ LET o == argv[3]
           n == Len(o)
       IN  \/ n < 4
           \/ <<o[n - 3], o[n - 2], o[n - 1], o[n]>> # <<".", "e", "p", "s">>

\* C4: when the output path does not end in ".eps" the run aborts before the
\* input file is opened or parsed, before any series is plotted and without
\* writing the output file.
C4_FailFast ==
    C4_BadExtension =>
        /\ pc \in {"args", "aborted"}
        /\ pc = "aborted" => error.line <= 7
        /\ ~opened
        /\ ~fileOpen
        /\ file = <<>>
        /\ data = <<>>
        /\ figure = NoFigure
        /\ plotted = <<>>
        /\ ~written

C4_Witness ==
    /\ argv = <<ArgScript, ArgIn, OutPng>>
    /\ pc = "aborted"
    /\ error = Raise("AssertionError", 7)
    /\ ~opened

-----------------------------------------------------------------------------
(* C5 *)

\* some data row of the parsed table has the reference value 0
ZeroReference ==
    \E i \in 2..Len(data) :
        /\ Len(data[i]) >= 2
        /\ At(data[i], 1).t = "float"
        /\ At(data[i], 1).v[1] = 0

\* every data row of the parsed table is a row of at least two numbers
AllRowsNumeric ==
    \A i \in 2..Len(data) :
        /\ Len(data[i]) >= 2
        /\ \A j \in 1..Len(data[i]) : data[i][j].t = "float"

\* C5 as stated: with a reference value of 0 in some data row, the ratio
\* computation does not abort the run: a run that reaches it ends with the
\* output file written.
C5_Original ==
    (ZeroReference /\ AllRowsNumeric /\ Len(data[1]) >= 2 /\ Terminal
        /\ error.type # "OSError" /\ error.line # 13)
    => (pc = "done" /\ written)

\* C5 amended: with a reference value of 0 in some data row and a header of
\* at least two columns, the run never plots a series and never writes the
\* output file: it aborts no later than the ratio computation of column 1,
\* which raises ZeroDivisionError when every data row is numeric.
C5_ZeroReferenceAborts ==
    (ZeroReference /\ Len(data[1]) >= 2) =>
        /\ plotted = <<>>
        /\ ~written
        /\ pc # "done"
        /\ (pc = "aborted" /\ error.line >= 19) => error.line \in {22, 26}
        /\ (pc = "aborted" /\ error.line >= 19 /\ AllRowsNumeric)
              => error = Raise("ZeroDivisionError", 26)

C5_Witness ==
    /\ ZeroReference
    /\ Len(data) = 3
    /\ pc = "aborted"
    /\ error = Raise("ZeroDivisionError", 26)
    /\ col = 1
    /\ plotted = <<>>
    /\ ~written

-----------------------------------------------------------------------------
(* C6 *)

\* C6 as stated: a run is completed only when every data row has as many
\* fields as the header.
C6_Original ==
    pc = "done" => \A i \in 2..Len(data) : Len(data[i]) = Len(data[1])

\* C6 amended: whenever some data row has fewer fields than the header, the
\* run does not complete and no output file is written (a row with more
\* fields than the header is accepted).
C6_ShortRowAborts ==
    (\E i \in 2..Len(data) : Len(data[i]) < Len(data[1])) =>
        /\ pc # "done"
        /\ ~written
        /\ pc = "aborted" => error.type # "none"

C6_Witness ==
    /\ pc = "aborted"
    /\ error = Raise("IndexError", 25)
    /\ Len(names) = 4
    /\ Len(plotted) = 2
    /\ \E i \in 1..Len(nums) : Len(nums[i]) = 3
    /\ ~written

-----------------------------------------------------------------------------
(* C7 *)

\* a line the parser takes for numbers, holding a field that is no number
BadNumberLine(raw) ==
    /\ FirstChar(raw) \notin {"", "n", "r"}
    /\ \E i \in 1..Len(FieldsOf(raw)) : ~CanFloat(FieldsOf(raw)[i])

\* C7: a numeric line with a field that is no number aborts the run at that
\* line: it is the last line read, nothing of it is in the table, no series
\* is plotted and no output file is written.
C7_BadFieldAbortsAtLine ==
    \A i \in 1..Len(file) :
        BadNumberLine(file[i]) =>
            /\ i = Len(file)
            /\ pc = "aborted"
            /\ error = Raise("ValueError", 13)
            /\ Len(data) <= i - 1
            /\ ~fileOpen
            /\ figure = NoFigure
            /\ plotted = <<>>
            /\ ~written

C7_Witness ==
    /\ Len(file) = 2
    /\ Len(data) = 1
    /\ BadNumberLine(file[2])
    /\ pc = "aborted"
    /\ error = Raise("ValueError", 13)

-----------------------------------------------------------------------------
(* C8 *)

\* Lines 10-15 over a whole file
RECURSIVE ParseAll(_, _)
ParseAll(d, ls) ==
    IF ls = <<>> THEN [err |-> NoError, data |-> d]
    ELSE LET r == ParseLine(d, Head(ls))
         IN  IF r.err # NoError THEN r ELSE ParseAll(r.data, Tail(ls))

\* Lines 24-29 from column c on, after the series in acc
RECURSIVE PlotAll(_, _, _)
PlotAll(e, c, acc) ==
    IF c >= Len(e.names) THEN [err |-> NoError, plotted |-> acc]
    ELSE LET r == PlotStep(e.names, e.nums, e.rhos, e.srpts, c)
         IN  IF r.err # NoError THEN [err |-> r.err, plotted |-> acc]
             ELSE PlotAll(e, c + 1, Append(acc, r.series))

\* The run of the script on a file that holds the lines ls (the files can be
\* opened and written)
RunOn(ls) ==
    LET p == ParseAll(<<>>, ls)
        e == ExtractStep(p.data)
        r == PlotAll(e, LoopStart, <<>>)
    IN  IF p.err # NoError THEN [err |-> p.err, plotted |-> <<>>]
        ELSE IF e.err # NoError THEN [err |-> e.err, plotted |-> <<>>]
        ELSE r

\* RunOn is the run of the state machine
RunOnIsTheRun ==
    (Terminal /\ error.line >= 10 /\ error.type # "OSError")
        => RunOn(file) = [err |-> error, plotted |-> plotted]

Without(ls, k) == SubSeq(ls, 1, k - 1) \o SubSeq(ls, k + 1, Len(ls))

\* line k of the file is a string row that follows the header
StringRowAfterHeader(k) ==
    /\ FirstChar(file[k]) = "r"
    /\ \E j \in 1..(k - 1) : NotDropped(file[j])

\* C8 as stated: a string row after the header is ignored: if the run on the
\* file without the line completes, the run on the file completes as well,
\* with the same plotted series.
C8_Original ==
    (Terminal /\ error.line >= 10 /\ error.type # "OSError") =>
        \A k \in 1..Len(file) :
            (StringRowAfterHeader(k) /\ RunOn(Without(file, k)).err = NoError)
                => /\ pc = "done"
                   /\ plotted = RunOn(Without(file, k)).plotted

\* C8 amended: a string row is not ignored by the transform: a string row
\* that follows the header is kept as a data row, and with a header of at
\* least two columns the run then never plots a series and never writes the
\* output file: it aborts at line 22 or in the ratio computation of line 26,
\* with a TypeError when every data row has two fields or more and no
\* reference value is 0.
C8_StringRowAborts ==
    \A k \in 1..Len(file) :
        (/\ StringRowAfterHeader(k)
         /\ Parsed
         /\ Len(data[1]) >= 2) =>
            /\ \E i \in 2..Len(data) : data[i] = AsNames(file[k])
            /\ plotted = <<>>
            /\ ~written
            /\ pc # "done"
            /\ pc = "aborted" => error.line \in {22, 26}
            /\ (/\ pc = "aborted"
                /\ \A i \in 2..Len(data) : Len(data[i]) >= 2
                /\ ~ZeroReference) => error = Raise("TypeError", 26)

C8_Witness ==
    /\ Len(file) = 3
    /\ StringRowAfterHeader(2)
    /\ IsNumberLine(file[3])
    /\ RunOn(Without(file, 2)).err = NoError
    /\ pc = "aborted"
    /\ error = Raise("TypeError", 26)

-----------------------------------------------------------------------------
(* C9 *)

\* s holds sub as a substring
HasSubstring(s, sub) ==
    \E i \in 1..Len(s) :
        /\ i + Len(sub) - 1 <= Len(s)
        /\ \A j \in 1..Len(sub) : s[i + j - 1] = sub[j]

\* C9: the k-th plotted series is labelled with the header name of column k
\* after the rewrite: "SRPTExcept" is shown as "SEK", a name that does not
\* contain "SRPTExcept" is shown unchanged.
C9_Labels ==
    \A k \in 1..Len(plotted) :
        LET n == At(names, k)
            l == plotted[k].label
        IN  /\ n.t = "str"
            /\ n.v = <<"S", "R", "P", "T", "E", "x", "c", "e", "p", "t">>
                  => l = <<"S", "E", "K">>
            /\ ~HasSubstring(n.v, <<"S", "R", "P", "T", "E", "x", "c", "e", "p", "t">>)
                  => l = n.v

C9_Witness ==
    /\ pc = "done"
    /\ Len(nums) >= 1
    /\ Len(plotted) = 3
    /\ plotted[1].label = <<"S", "R", "P", "T">>
    /\ plotted[2].label = <<"S", "E", "K">>
    /\ plotted[3].label = <<"S", "E", "K", "2">>

-----------------------------------------------------------------------------
(* C10 *)

\* C10 as stated: the i-th plotted series (from 0) has the style
\* palette[i mod 9], and the lookup of a style never aborts the run.
C10_Original ==
    /\ \A k \in 1..Len(plotted) :
          plotted[k].linestyle = At(dots, (k - 1) % Len(dots))
    /\ error # Raise("IndexError", 29)

\* C10 amended: the lookup is not cyclic: the i-th plotted series (from 0)
\* has the style palette[i] for i < 9; no more than 9 series are ever
\* plotted, and a table with more than 9 columns to plot never completes
\* and no output file is written: when its header is a row of names and its
\* rows are numeric, as wide as the header and free of a zero reference, the
\* lookup for the tenth series raises IndexError after nine series.
C10_PaletteByIndex ==
    /\ Len(plotted) <= Len(dots)
    /\ \A k \in 1..Len(plotted) : plotted[k].linestyle = At(dots, k - 1)
    /\ Len(names) > Len(dots) + 1 =>
          /\ pc # "done"
          /\ ~written
          /\ (pc = "aborted" /\ AllRowsNumeric
                /\ \A j \in 1..Len(names) : names[j].t = "str"
                /\ \A i \in 1..Len(nums) : Len(nums[i]) >= Len(names)
                /\ ~ZeroReference)
                => /\ error = Raise("IndexError", 29)
                   /\ Len(plotted) = Len(dots)

C10_Witness ==
    /\ pc = "aborted"
    /\ error = Raise("IndexError", 29)
    /\ col = 10
    /\ Len(nums) >= 1
    /\ Len(plotted) = 9
    /\ ~written

=============================================================================
